---- MODULE Spec2Model ----
(***************************************************************************)
(* Model of the in-memory prefix tree of conflux (recon/ptree.go): the     *)
(* MemPrefixTree configuration and Init, Insert and Remove with the        *)
(* recursive insert / split / remove / join of MemPrefixNode.              *)
(*                                                                         *)
(* The field arithmetic (Zp), Bitstring, ReverseBytes and Zpoints live in  *)
(* the parent package of the repository; they are modelled after the       *)
(* written specification.  The prime is scaled down to a 10-bit prime so   *)
(* that the navigation bitstring still spans two bytes and is not a whole  *)
(* number of bytes, as for P_SKS.                                          *)
(***************************************************************************)
EXTENDS Integers, Sequences, FiniteSets, TLC

(***************************************************************************)
(* Bounds of the model.                                                    *)
(***************************************************************************)
\* How many entries of ElemList callers may pass to Insert and Remove.
NumElems == 5
\* Largest splitThreshold a caller sets before Init (0 = left unset).
MaxSplit == 2
\* Largest joinThreshold a caller sets before Init (0 = left unset).
MaxJoin == 1
\* Largest value of any configuration field in the configurations SpecConfig
\* runs Init on.
MaxField == 2

\* The values callers pass as z, in the order the bound NumElems admits them.
\* 1 and 2 are sample points (2 only when numSamples >= 3); 260, 264 and 268
\* share one navigation bitstring.
ElemList == <<1, 4, 7, 8, 12, 2, 260, 264, 268, 5>>
Universe == {ElemList[i] : i \in 1..NumElems}

\* Elements of which 260, 264, 268 and 272 share one navigation bitstring:
\* their two bytes differ only in bits of the second byte that lie beyond
\* the bitstring's length.
PrefixElems == {260, 264, 268, 272}

(***************************************************************************)
(* Program constants.                                                      *)
(***************************************************************************)
DefaultThreshMult == 10
DefaultBitQuantum == 2
DefaultMBar == 5
DefaultSplitThreshold == DefaultThreshMult * DefaultMBar
DefaultJoinThreshold == DefaultSplitThreshold \div 2
DefaultNumSamples == DefaultMBar + 1

\* The field prime (scaled down from the 129-bit SKS prime).
P_SKS == 521
\* Bits per byte of a Bitstring buffer.
ByteBits == 8

(***************************************************************************)
(* Zp: arithmetic modulo P_SKS on canonical representatives 0..P_SKS-1.    *)
(***************************************************************************)
Zi(n) == ((n % P_SKS) + P_SKS) % P_SKS

Sub(a, b) == Zi(a - b)

Mul(a, b) == (a * b) % P_SKS

IsZero(a) == a = 0

RECURSIVE Exp(_, _)
Exp(a, e) ==
    IF e = 0 THEN 1
    ELSE LET h == Exp(a, e \div 2)
             s == Mul(h, h)
         IN  IF e % 2 = 1 THEN Mul(s, a) ELSE s

\* Multiplicative inverse by Fermat exponentiation; undefined for zero, which
\* callers test with IsZero before using the result.
Inv(a) == Exp(a, P_SKS - 2)

\* Number of bits of n (big.Int.BitLen).
RECURSIVE BitLen(_)
BitLen(n) == IF n = 0 THEN 0 ELSE 1 + BitLen(n \div 2)

\* z.Bytes(): the canonical representative, little-endian, no padding.
RECURSIVE Bytes(_)
Bytes(z) == IF z = 0 THEN <<>> ELSE <<z % (2 ^ ByteBits)>> \o Bytes(z \div (2 ^ ByteBits))

ReverseBytes(b) == [i \in 1..Len(b) |-> b[Len(b) + 1 - i]]

\* Sample points 1, -1, 2, -2, ...
Zpoints(n) ==
    [k \in 1..n |-> IF (k - 1) % 2 = 0 THEN Zi(((k - 1) \div 2) + 1)
                                       ELSE Zi(0 - (((k - 1) \div 2) + 1))]

(***************************************************************************)
(* Bitstring: a bit length and a zeroed byte buffer of ceil(bits/8) bytes. *)
(***************************************************************************)
NewBitstring(bits) ==
    [bits |-> bits,
     buf  |-> [i \in 1..((bits + ByteBits - 1) \div ByteBits) |-> 0]]

\* Copies the bytes of b over the start of the buffer.
SetBytes(bs, b) ==
    [bs EXCEPT !.buf = [i \in 1..Len(bs.buf) |-> IF i <= Len(b) THEN b[i] ELSE bs.buf[i]]]

\* Bit i, least significant bit of each byte first; defined for 0 <= i < bits.
InRange(bs, i) == i >= 0 /\ i < bs.bits

Get(bs, i) == (bs.buf[(i \div ByteBits) + 1] \div (2 ^ (i % ByteBits))) % 2

\* Set and Unset write bit i, in the same order within a byte as Get reads.
Set(bs, i) ==
    IF Get(bs, i) = 1 THEN bs
    ELSE [bs EXCEPT !.buf[(i \div ByteBits) + 1] = @ + 2 ^ (i % ByteBits)]

Unset(bs, i) ==
    IF Get(bs, i) = 0 THEN bs
    ELSE [bs EXCEPT !.buf[(i \div ByteBits) + 1] = @ - 2 ^ (i % ByteBits)]

\* The navigation bitstring of z, as Find, Insert, Remove and split build it.
Nav(z) == SetBytes(NewBitstring(BitLen(P_SKS)), ReverseBytes(Bytes(z)))


(***************************************************************************)
(* State.  The tree's configuration fields and sample points, the root     *)
(* pointer, and the heap of MemPrefixNode objects reachable from the root. *)
(* A node is named by the child positions on the way to it from the root;  *)
(* the name is only an address: parent, key and children are fields.       *)
(* err is the panic that ended the last call ("none" while every call so   *)
(* far has returned); a panic ends the program.  present is the set of     *)
(* elements whose Insert returned and that no returned Remove took out;    *)
(* seen records whether a split and a join have run since Init.  present   *)
(* and seen are history variables: no code reads them.                     *)
(***************************************************************************)
VARIABLES splitThreshold, joinThreshold, bitQuantum, mBar, numSamples,
          points, root, nodes, err, present, seen

vars == <<splitThreshold, joinThreshold, bitQuantum, mBar, numSamples,
          points, root, nodes, err, present, seen>>

\* The nil *MemPrefixNode and the address of the root node.
NilNode == <<-1>>
RootNode == <<>>

\* Values a caller gives the configuration fields before Init (0 = unset).
\* No operation of the tree reads mBar, so the trees of Spec leave it unset;
\* SpecConfig sets it.
BitQuantumChoices == {-1, 0, 1}
NumSamplesChoices == {0, 2}

\* n.init(t) on a fresh node &MemPrefixNode{parent: p} with key k.
\* A node made without its key being set.
NodeInitNoKey(p, k, ns) ==
    [parent      |-> p,
     key         |-> 0,
     children    |-> <<>>,
     elements    |-> <<>>,
     numElements |-> 0,
     svalues     |-> [i \in 1..ns |-> Zi(1)]]

NodeInit(p, k, ns) ==
    [parent      |-> p,
     key         |-> k,
     children    |-> <<>>,
     elements    |-> <<>>,
     numElements |-> 0,
     svalues     |-> [i \in 1..ns |-> Zi(1)]]

IsLeaf(node) == Len(node.children) = 0

\* 1 << uint(k) on a 64-bit int, for the small k of the model.
Shl1(k) == IF k < 0 \/ k >= 63 THEN 0 ELSE 2 ^ k

\* AddElementArray without the IsZero test.
AddElementArrayNoCheck(z) ==
    [marray |-> [i \in 1..Len(points) |-> Sub(points[i], z)],
     err    |-> "none"]

\* AddElementArray with the operands of Sub exchanged.
AddElementArraySwapped(z) ==
    LET marray == [i \in 1..Len(points) |-> Sub(z, points[i])]
    IN  [marray |-> marray,
         err    |-> IF \E i \in 1..Len(points) : IsZero(marray[i])
                    THEN "SamplePointCollision" ELSE "none"]

\* AddElementArray: the insertion contributions, and the panic on a zero.
AddElementArray(z) ==
    LET marray == [i \in 1..Len(points) |-> Sub(points[i], z)]
    IN  [marray |-> marray,
         err    |-> IF \E i \in 1..Len(points) : IsZero(marray[i])
                    THEN "SamplePointCollision" ELSE "none"]

\* DelElementArray without the inversion.
DelElementArrayNoInv(z) ==
    [marray |-> [i \in 1..Len(points) |-> Sub(points[i], z)],
     err    |-> IF \E i \in 1..Len(points) : IsZero(Sub(points[i], z))
                THEN "ArithmeticError" ELSE "none"]

\* DelElementArray: the deletion contributions; inverting zero fails.
DelElementArray(z) ==
    [marray |-> [i \in 1..Len(points) |-> Inv(Sub(points[i], z))],
     err    |-> IF \E i \in 1..Len(points) : IsZero(Sub(points[i], z))
                THEN "ArithmeticError" ELSE "none"]

\* updateSvalues with the loop stopping one index early.
updateSvaluesShort(svalues, marray) ==
    [i \in 1..Len(svalues) |->
        IF i < Len(svalues) THEN Mul(svalues[i], marray[i]) ELSE svalues[i]]

updateSvalues(svalues, marray) ==
    [i \in 1..Len(svalues) |-> Mul(svalues[i], marray[i])]

\* withRemoved stopping at z instead of skipping it.
withRemovedStop(elements, z) ==
    [result |-> SubSeq(elements, 1,
                       Cardinality({i \in 1..Len(elements) :
                                       \A j \in 1..i : elements[j] # z})),
     has    |-> \E i \in 1..Len(elements) : elements[i] = z]

\* withRemoved: the elements other than z, in order, and whether z was there.
withRemoved(elements, z) ==
    [result |-> SelectSeq(elements, LAMBDA e : e # z),
     has    |-> \E i \in 1..Len(elements) : elements[i] = z]

\* The child index NextChild reads at depth: bit depth*nbq+i weighs 2^i.
RECURSIVE ChildIndex(_, _, _, _)
ChildIndex(bs, depth, nbq, i) ==
    IF i >= nbq THEN 0
    ELSE Get(bs, depth * nbq + i) * Shl1(i) + ChildIndex(bs, depth, nbq, i + 1)

NextChild(h, n, bs, depth) ==
    IF IsLeaf(h[n]) THEN [err |-> "LeafDeref", child |-> NilNode]
    ELSE IF \E i \in 0..(bitQuantum - 1) : ~InRange(bs, depth * bitQuantum + i)
         THEN [err |-> "BitRange", child |-> NilNode]
         ELSE [err |-> "none",
               child |-> h[n].children[ChildIndex(bs, depth, bitQuantum, 0) + 1]]

(***************************************************************************)
(* insert, split, remove and join.  Each takes the heap h and the node n   *)
(* it runs on and yields the heap it leaves and the panic that ended it    *)
(* ("none" when it returned).  A panic keeps every write made before it.   *)
(***************************************************************************)
RECURSIVE insert(_, _, _, _, _, _)
RECURSIVE split(_, _, _)
RECURSIVE moveElements(_, _, _, _)

\* split's loop over n.elements starting at the second element.
RECURSIVE moveElementsSkipFirst(_, _, _, _)
moveElementsSkipFirst(h, n, depth, i) ==
    IF i = 1 THEN moveElementsSkipFirst(h, n, depth, 2)
    ELSE IF i > Len(h[n].elements) THEN [h |-> h, err |-> "none"]
    ELSE LET element == h[n].elements[i]
             bs      == Nav(element)
             c       == NextChild(h, n, bs, depth)
             a       == AddElementArray(element)
         IN  IF c.err # "none" THEN [h |-> h, err |-> c.err]
             ELSE IF a.err # "none" THEN [h |-> h, err |-> a.err]
             ELSE LET r == insert(h, c.child, element, a.marray, bs, depth + 1)
                  IN  IF r.err # "none" THEN r
                      ELSE moveElementsSkipFirst(r.h, n, depth, i + 1)

\* The loop of split that re-inserts n's elements, from the i-th on, into
\* the child NextChild selects.
moveElements(h, n, depth, i) ==
    IF i > Len(h[n].elements) THEN [h |-> h, err |-> "none"]
    ELSE LET element == h[n].elements[i]
             bs      == Nav(element)
             c       == NextChild(h, n, bs, depth)
             a       == AddElementArray(element)
         IN  IF c.err # "none" THEN [h |-> h, err |-> c.err]
             ELSE IF a.err # "none" THEN [h |-> h, err |-> a.err]
             ELSE LET r == insert(h, c.child, element, a.marray, bs, depth + 1)
                  IN  IF r.err # "none" THEN r
                      ELSE moveElements(r.h, n, depth, i + 1)

\* split that leaves n.elements as they were.
splitKeepsElements(h, n, depth) ==
    LET numChildren == Shl1(bitQuantum)
        kids == [i \in 1..numChildren |-> Append(n, i - 1)]
        h1 == [m \in DOMAIN h \cup {kids[i] : i \in 1..numChildren} |->
                 IF m \in DOMAIN h
                 THEN IF m = n THEN [h[n] EXCEPT !.children = @ \o kids] ELSE h[m]
                 ELSE NodeInit(n, m[Len(m)], numSamples)]
    IN  moveElements(h1, n, depth, 1)

split(h, n, depth) ==
    LET numChildren == Shl1(bitQuantum)
        kids == [i \in 1..numChildren |-> Append(n, i - 1)]
        h1 == [m \in DOMAIN h \cup {kids[i] : i \in 1..numChildren} |->
                 IF m \in DOMAIN h
                 THEN IF m = n THEN [h[n] EXCEPT !.children = @ \o kids] ELSE h[m]
                 ELSE NodeInit(n, m[Len(m)], numSamples)]
        r == moveElements(h1, n, depth, 1)
    IN  IF r.err # "none" THEN r
        ELSE [h |-> [r.h EXCEPT ![n].elements = <<>>], err |-> "none"]

insert(h, n, z, marray, bs, depth) ==
    LET h1 == [h EXCEPT ![n].svalues = updateSvalues(@, marray),
                        ![n].numElements = @ + 1]
        descend(hh) ==
            LET c == NextChild(hh, n, bs, depth)
            IN  IF c.err # "none" THEN [h |-> hh, err |-> c.err]
                ELSE insert(hh, c.child, z, marray, bs, depth + 1)
    IN  IF IsLeaf(h1[n])
        THEN IF Len(h1[n].elements) > splitThreshold
             THEN LET s == split(h1, n, depth)
                  IN  IF s.err # "none" THEN s ELSE descend(s.h)
             ELSE IF \E i \in 1..Len(h1[n].elements) : h1[n].elements[i] = z
                  THEN [h |-> h1, err |-> "Duplicate"]
                  ELSE [h |-> [h1 EXCEPT ![n].elements = Append(@, z)],
                        err |-> "none"]
        ELSE descend(h1)

\* join that splices the elements of n's children only and drops what lies
\* below them (the worklist never takes the grandchildren).
RECURSIVE joinShallow(_, _)
joinShallow(h, n) ==
    IF Len(h[n].children) = 0
    THEN [m \in {k \in DOMAIN h : ~(Len(k) > Len(n) /\ SubSeq(k, 1, Len(n)) = n)} |-> h[m]]
    ELSE LET childNode == Head(h[n].children)
             h1 == [h EXCEPT ![n].children = Tail(@),
                             ![n].elements = @ \o h[childNode].elements]
         IN  joinShallow(h1, n)

\* join: the worklist loop.  The popped child is referenced by nothing
\* afterwards and leaves the heap.
RECURSIVE join(_, _)
join(h, n) ==
    IF Len(h[n].children) = 0 THEN h
    ELSE LET childNode == Head(h[n].children)
             h1 == [h EXCEPT ![n].children = Tail(@) \o h[childNode].children,
                             ![n].elements = @ \o h[childNode].elements]
         IN  join([m \in DOMAIN h1 \ {childNode} |-> h1[m]], n)

\* remove that joins only below joinThreshold (< in place of <=).
RECURSIVE removeStrict(_, _, _, _, _, _)
removeStrict(h, n, z, marray, bs, depth) ==
    LET h1 == [h EXCEPT ![n].svalues = updateSvalues(@, marray),
                        ![n].numElements = @ - 1]
        atLeaf(hh) ==
            LET w == withRemoved(hh[n].elements, z)
            IN  IF ~w.has THEN [h |-> hh, err |-> "Missing"]
                ELSE [h |-> [hh EXCEPT ![n].elements = w.result], err |-> "none"]
    IN  IF ~IsLeaf(h1[n])
        THEN IF h1[n].numElements < joinThreshold
             THEN atLeaf(join(h1, n))
             ELSE LET c == NextChild(h1, n, bs, depth)
                  IN  IF c.err # "none" THEN [h |-> h1, err |-> c.err]
                      ELSE removeStrict(h1, c.child, z, marray, bs, depth + 1)
        ELSE atLeaf(h1)

RECURSIVE remove(_, _, _, _, _, _)
remove(h, n, z, marray, bs, depth) ==
    LET h1 == [h EXCEPT ![n].svalues = updateSvalues(@, marray),
                        ![n].numElements = @ - 1]
        atLeaf(hh) ==
            LET w == withRemoved(hh[n].elements, z)
            IN  IF ~w.has THEN [h |-> hh, err |-> "Missing"]
                ELSE [h |-> [hh EXCEPT ![n].elements = w.result], err |-> "none"]
    IN  IF ~IsLeaf(h1[n])
        THEN IF h1[n].numElements <= joinThreshold
             THEN atLeaf(join(h1, n))
             ELSE LET c == NextChild(h1, n, bs, depth)
                  IN  IF c.err # "none" THEN [h |-> h1, err |-> c.err]
                      ELSE remove(h1, c.child, z, marray, bs, depth + 1)
        ELSE atLeaf(h1)

\* MemPrefixTree.Insert and MemPrefixTree.Remove on the heap h.
InsertResult(h, z) ==
    LET bs == Nav(z)
        a  == AddElementArray(z)
    IN  IF a.err # "none" THEN [h |-> h, err |-> a.err]
        ELSE insert(h, root, z, a.marray, bs, 0)

RemoveResult(h, z) ==
    LET bs == Nav(z)
        d  == DelElementArray(z)
    IN  IF d.err # "none" THEN [h |-> h, err |-> d.err]
        ELSE remove(h, root, z, d.marray, bs, 0)

\* MemPrefixNode.Elements.
RECURSIVE Elements(_, _)
RECURSIVE ElementsOf(_, _, _)
ElementsOf(h, kids, i) ==
    IF i > Len(kids) THEN <<>>
    ELSE Elements(h, kids[i]) \o ElementsOf(h, kids, i + 1)
Elements(h, n) ==
    IF IsLeaf(h[n]) THEN h[n].elements ELSE ElementsOf(h, h[n].children, 1)

\* Node with the chunk read most significant bit first.
RECURSIVE NodeChildIndexMsb(_, _, _, _)
NodeChildIndexMsb(bs, i, nbq, j) ==
    IF j >= nbq THEN 0
    ELSE (IF Get(bs, i + j) = 1 THEN Shl1(nbq - 1 - j) ELSE 0)
         + NodeChildIndexMsb(bs, i, nbq, j + 1)

\* Node's inner loop: childIndex |= 1 << j for every set bit i+j, j < nbq.
RECURSIVE NodeChildIndex(_, _, _, _)
NodeChildIndex(bs, i, nbq, j) ==
    IF j >= nbq THEN 0
    ELSE (IF Get(bs, i + j) = 1 THEN Shl1(j) ELSE 0)
         + NodeChildIndex(bs, i, nbq, j + 1)

\* Node's outer loop from bit i at node: it goes on while bits are left and
\* the node is internal, and steps bitQuantum bits at a time.
RECURSIVE NodeWalk(_, _, _, _)
NodeWalk(h, node, bs, i) ==
    IF i < bs.bits /\ ~IsLeaf(h[node])
    THEN IF \E j \in 0..(bitQuantum - 1) : ~InRange(bs, i + j)
         THEN [err |-> "BitRange", node |-> NilNode]
         ELSE NodeWalk(h, h[node].children[NodeChildIndex(bs, i, bitQuantum, 0) + 1],
                       bs, i + bitQuantum)
    ELSE [err |-> "none", node |-> node]

Node(h, bs) == NodeWalk(h, root, bs, 0)

Find(h, z) == Node(h, Nav(z))

\* Key's first loop: the key of every node from n up to, but without, the
\* root, the topmost first.
RECURSIVE KeysOf(_, _)
KeysOf(h, cur) ==
    IF cur = NilNode \/ h[cur].parent = NilNode THEN <<>>
    ELSE KeysOf(h, h[cur].parent) \o <<h[cur].key>>

\* Key's second loop with bit j of a key written to the chunk's bit nbq-1-j.
RECURSIVE KeyFillMsb(_, _, _, _, _)
KeyFillMsb(bs, keys, nbq, i, j) ==
    IF i < 0 THEN bs
    ELSE IF j >= nbq THEN KeyFillMsb(bs, keys, nbq, i - 1, 0)
    ELSE KeyFillMsb(IF (keys[i + 1] \div (2 ^ j)) % 2 = 1
                    THEN Set(bs, i * nbq + (nbq - 1 - j))
                    ELSE Unset(bs, i * nbq + (nbq - 1 - j)),
                    keys, nbq, i, j + 1)

\* Key's second loop, at keys[i] (counted from 0) and bit j: bit j of the
\* key goes to bit i*nbq + j of the bitstring.
RECURSIVE KeyFill(_, _, _, _, _)
KeyFill(bs, keys, nbq, i, j) ==
    IF i < 0 THEN bs
    ELSE IF j >= nbq THEN KeyFill(bs, keys, nbq, i - 1, 0)
    ELSE KeyFill(IF (keys[i + 1] \div (2 ^ j)) % 2 = 1
                 THEN Set(bs, i * nbq + j)
                 ELSE Unset(bs, i * nbq + j),
                 keys, nbq, i, j + 1)

Key(h, n) ==
    LET keys == KeysOf(h, n)
    IN  KeyFill(NewBitstring(Len(keys) * bitQuantum), keys, bitQuantum, Len(keys) - 1, 0)

(***************************************************************************)
(* Actions.                                                                *)
(***************************************************************************)
Init ==
    /\ bitQuantum \in BitQuantumChoices
    /\ splitThreshold \in 0..MaxSplit
    /\ joinThreshold \in 0..MaxJoin
    /\ mBar = 0
    /\ numSamples \in NumSamplesChoices
    /\ points = <<>>
    /\ root = NilNode
    /\ nodes = [m \in {} |-> 0]
    /\ err = "none"
    /\ present = {}
    /\ seen = {}

\* A MemPrefixTree with every field set or left zero, before Init.
ConfigInit ==
    /\ bitQuantum \in -1..MaxField
    /\ splitThreshold \in 0..MaxField
    /\ joinThreshold \in 0..MaxField
    /\ mBar \in 0..MaxField
    /\ numSamples \in 0..MaxField
    /\ points = <<>>
    /\ root = NilNode
    /\ nodes = [m \in {} |-> 0]
    /\ err = "none"
    /\ present = {}
    /\ seen = {}

\* MemPrefixTree.Init.
TreeInit ==
    /\ err = "none"
    /\ bitQuantum' = IF bitQuantum = 0 THEN DefaultBitQuantum ELSE bitQuantum
    /\ splitThreshold' = IF splitThreshold = 0 THEN DefaultSplitThreshold ELSE splitThreshold
    /\ joinThreshold' = IF joinThreshold = 0 THEN DefaultJoinThreshold ELSE joinThreshold
    /\ mBar' = IF mBar = 0 THEN DefaultMBar ELSE mBar
    /\ numSamples' = IF numSamples = 0 THEN DefaultNumSamples ELSE numSamples
    /\ points' = Zpoints(numSamples')
    /\ root' = RootNode
    /\ nodes' = [m \in {RootNode} |-> NodeInit(NilNode, 0, numSamples')]
    /\ present' = {}
    /\ seen' = {}
    /\ UNCHANGED err

Insert(z) ==
    /\ err = "none"
    /\ root # NilNode
    /\ \E r \in {InsertResult(nodes, z)} :
           /\ nodes' = r.h
           /\ err' = r.err
           /\ present' = IF r.err = "none" THEN present \cup {z} ELSE present
           /\ seen' = IF DOMAIN r.h # DOMAIN nodes THEN seen \cup {"split"} ELSE seen
    /\ UNCHANGED <<splitThreshold, joinThreshold, bitQuantum, mBar, numSamples,
                   points, root>>

Remove(z) ==
    /\ err = "none"
    /\ root # NilNode
    /\ \E r \in {RemoveResult(nodes, z)} :
           /\ nodes' = r.h
           /\ err' = r.err
           /\ present' = IF r.err = "none" THEN present \ {z} ELSE present
           /\ seen' = IF DOMAIN r.h # DOMAIN nodes THEN seen \cup {"join"} ELSE seen
    /\ UNCHANGED <<splitThreshold, joinThreshold, bitQuantum, mBar, numSamples,
                   points, root>>

Next ==
    \/ TreeInit
    \/ \E z \in Universe : Insert(z)
    \/ \E z \in Universe : Remove(z)

Spec == Init /\ [][Next]_vars

\* Init alone, run on every configuration.
NextConfig == TreeInit

SpecConfig == ConfigInit /\ [][NextConfig]_vars

\* The tree under callers that pass the elements of PrefixElems.
NextPrefix ==
    \/ TreeInit
    \/ \E z \in PrefixElems : Insert(z)
    \/ \E z \in PrefixElems : Remove(z)

SpecPrefix == Init /\ [][NextPrefix]_vars

(***************************************************************************)
(* Properties.                                                             *)
(***************************************************************************)
\* The tree is initialised and no call has panicked.
Ready == root # NilNode /\ err = "none"

\* The product of (pt - z) over the elements z of the sequence elems.
RECURSIVE Prod(_, _)
Prod(elems, pt) ==
    IF elems = <<>> THEN Zi(1) ELSE Mul(Sub(pt, Head(elems)), Prod(Tail(elems), pt))

SeqToSet(q) == {q[i] : i \in 1..Len(q)}

RECURSIVE SumSizes(_, _, _)
SumSizes(h, kids, i) ==
    IF i > Len(kids) THEN 0 ELSE h[kids[i]].numElements + SumSizes(h, kids, i + 1)

IsSamplePoint(z) == \E i \in 1..Len(points) : points[i] = Zi(z)

\* The tree Init leaves: a root leaf without elements, all svalues one.
EmptyTree == [m \in {RootNode} |-> NodeInit(NilNode, 0, numSamples)]

\* C1: after any sequence of Insert/Remove calls that all returned, every
\* node's svalues[i] is the product of (points[i] - z) over the elements z at
\* or below the node (1 for a node with none).
C1_SvalueConsistency ==
    Ready =>
        \A n \in DOMAIN nodes :
            /\ Len(nodes[n].svalues) = Len(points)
            /\ \A i \in 1..Len(points) :
                   nodes[n].svalues[i] = Prod(Elements(nodes, n), points[i])

\* C1 witness: after a split and a join, the root is internal again and has
\* an internal child and a non-empty leaf.
C1_Witness ==
    /\ Ready
    /\ seen = {"split", "join"}
    /\ ~IsLeaf(nodes[root])
    /\ \E n \in DOMAIN nodes : n # root /\ ~IsLeaf(nodes[n])
    /\ \E n \in DOMAIN nodes : IsLeaf(nodes[n]) /\ nodes[n].numElements > 0

\* C2: after any sequence of Insert/Remove calls that all returned, every
\* node's numElements is the number of elements at or below it: len(elements)
\* for a leaf, the sum of the children's numElements for an internal node.
C2_CountConsistency ==
    Ready =>
        \A n \in DOMAIN nodes :
            /\ nodes[n].numElements = Len(Elements(nodes, n))
            /\ IF IsLeaf(nodes[n])
               THEN nodes[n].numElements = Len(nodes[n].elements)
               ELSE nodes[n].numElements = SumSizes(nodes, nodes[n].children, 1)

\* C2 witness: a join has made the root a leaf that holds several elements.
C2_Witness ==
    /\ Ready
    /\ "join" \in seen
    /\ IsLeaf(nodes[root])
    /\ nodes[root].numElements >= 2

\* C3: after any sequence of Insert/Remove calls that all returned,
\* Root().Elements() holds exactly the elements inserted and not removed
\* since, each once.
C3_ElementsAreTheSet ==
    Ready =>
        LET all == Elements(nodes, root)
        IN  /\ SeqToSet(all) = present
            /\ Len(all) = Cardinality(present)

\* C3 witness: after a split and a join the tree is split again and holds at
\* least three elements in more than one leaf.
C3_Witness ==
    /\ Ready
    /\ seen = {"split", "join"}
    /\ ~IsLeaf(nodes[root])
    /\ Cardinality(present) >= 3
    /\ Cardinality({n \in DOMAIN nodes : nodes[n].elements # <<>>}) >= 2

\* C4: Insert(z) of a sample point z fails with SamplePointCollision and
\* leaves every node of the tree as it was.
C4_SamplePointInsertFails ==
    [][\A z \in Universe :
          (IsSamplePoint(z) /\ Insert(z)) =>
              (err' = "SamplePointCollision" /\ nodes' = nodes)]_vars

\* C4 witness: the insert of a sample point into a split tree has failed.
C4_Witness ==
    /\ err = "SamplePointCollision"
    /\ ~IsLeaf(nodes[root])
    /\ present # {}

\* C5: Insert(z) of an element already stored fails with Duplicate and leaves
\* the tree unchanged.
C5_DuplicateLeavesTreeUnchanged ==
    [][\A z \in Universe :
          (z \in present /\ Insert(z)) =>
              (err' = "Duplicate" /\ nodes' = nodes)]_vars

\* C6: Remove(z) of an element that is not stored (and is no sample point)
\* fails with Missing and leaves the tree unchanged.
C6_MissingLeavesTreeUnchanged ==
    [][\A z \in Universe :
          (z \notin present /\ ~IsSamplePoint(z) /\ Remove(z)) =>
              (err' = "Missing" /\ nodes' = nodes)]_vars

\* z may be inserted: it is neither stored nor a sample point.
Fresh(z) == z \notin present /\ ~IsSamplePoint(z)

\* No split ran between the heaps h1 and h2: no node was created.
NoSplit(h1, h2) == DOMAIN h1 = DOMAIN h2

\* The heaps h1 and h2 hold the same tree: the same nodes with the same
\* parent, key, children, numElements and svalues, and the same elements in
\* each node, in whatever order.
SameTree(h1, h2) ==
    /\ DOMAIN h1 = DOMAIN h2
    /\ \A n \in DOMAIN h1 :
           /\ h1[n].parent = h2[n].parent
           /\ h1[n].key = h2[n].key
           /\ h1[n].children = h2[n].children
           /\ h1[n].numElements = h2[n].numElements
           /\ h1[n].svalues = h2[n].svalues
           /\ Len(h1[n].elements) = Len(h2[n].elements)
           /\ SeqToSet(h1[n].elements) = SeqToSet(h2[n].elements)

\* C7 as claimed: Insert(z) then Remove(z) of a fresh z gives back the same
\* tree (svalues, numElements, structure, elements of each leaf), also when
\* the Insert splits a leaf.
C7_InsertRemoveInverse ==
    Ready =>
        \A z \in Universe :
            Fresh(z) =>
                LET i == InsertResult(nodes, z)
                    r == RemoveResult(i.h, z)
                IN  (i.err = "none" /\ r.err = "none") => SameTree(r.h, nodes)

\* C7 amended: Insert(z) then Remove(z) of a fresh z gives back the root's
\* svalues, its numElements and the stored elements; it gives back the very
\* tree when the Insert splits no leaf and no internal node of the tree holds
\* joinThreshold elements or fewer.
C7_InsertRemoveRestores ==
    Ready =>
        \A z \in Universe :
            Fresh(z) =>
                LET i == InsertResult(nodes, z)
                    r == RemoveResult(i.h, z)
                IN  (i.err = "none" /\ r.err = "none") =>
                        /\ r.h[root].svalues = nodes[root].svalues
                        /\ r.h[root].numElements = nodes[root].numElements
                        /\ SeqToSet(Elements(r.h, root)) = SeqToSet(Elements(nodes, root))
                        /\ Len(Elements(r.h, root)) = Len(Elements(nodes, root))
                        /\ ( /\ NoSplit(nodes, i.h)
                             /\ \A n \in DOMAIN nodes :
                                   ~IsLeaf(nodes[n]) => nodes[n].numElements > joinThreshold )
                           => r.h = nodes

\* C7 witness: a split tree in which one fresh element goes down to a leaf
\* below the root and comes out again leaving the very tree, and another
\* splits a full leaf and leaves the split behind when it is removed.
C7_Witness ==
    /\ Ready
    /\ ~IsLeaf(nodes[root])
    /\ \E z \in Universe :
          /\ Fresh(z)
          /\ LET i == InsertResult(nodes, z)
                 r == RemoveResult(i.h, z)
             IN  i.err = "none" /\ r.err = "none" /\ NoSplit(nodes, i.h) /\ r.h = nodes
    /\ \E z \in Universe :
          /\ Fresh(z)
          /\ LET i == InsertResult(nodes, z)
                 r == RemoveResult(i.h, z)
             IN  /\ i.err = "none" /\ r.err = "none"
                 /\ ~NoSplit(nodes, i.h)
                 /\ ~SameTree(r.h, nodes)

\* C8: once every inserted element has been removed again, the tree is the
\* empty tree: the root is a leaf without children or elements, its Size is 0
\* and its svalues are all 1.
C8_EmptyAfterRemovingAll ==
    (Ready /\ present = {}) => nodes = EmptyTree

\* C8 witness: every element has been removed from a tree that had split.
C8_Witness ==
    /\ Ready
    /\ present = {}
    /\ "split" \in seen

\* C9: after Init the configuration satisfies NumSamples = MBar + 1,
\* JoinThreshold = SplitThreshold / 2, SplitThreshold a multiple of MBar, and
\* len(Points()) = NumSamples.
C9_DerivedRelations ==
    root # NilNode =>
        /\ numSamples = mBar + 1
        /\ joinThreshold = splitThreshold \div 2
        /\ \E threshMult \in 1..splitThreshold : splitThreshold = threshMult * mBar
        /\ Len(points) = numSamples

\* C10: a tree with BitQuantum < 1, MBar < 1 or JoinThreshold >= SplitThreshold
\* never gets a root from Init.
C10_InitRejectsInvalid ==
    root # NilNode =>
        /\ bitQuantum >= 1
        /\ mBar >= 1
        /\ joinThreshold < splitThreshold

\* The number of parent links from n up to the root.
RECURSIVE Depth(_, _)
Depth(h, n) == IF h[n].parent = NilNode THEN 0 ELSE 1 + Depth(h, h[n].parent)

\* C11: in every state reached by returned Insert/Remove calls, Find(z) of a
\* stored element z returns, without error, a leaf whose elements contain z:
\* Node picks at every depth the child that NextChild picked when z went in.
C11_FindReachesTheLeaf ==
    Ready =>
        \A z \in present :
            LET f == Find(nodes, z)
            IN  /\ f.err = "none"
                /\ f.node \in DOMAIN nodes
                /\ IsLeaf(nodes[f.node])
                /\ z \in SeqToSet(nodes[f.node].elements)

\* C11 witness: Find reaches a stored element in a leaf two levels below the
\* root, through child positions that are not read the same in both bit
\* orders.
C11_Witness ==
    /\ Ready
    /\ \E z \in present :
          LET f == Find(nodes, z)
          IN  /\ f.err = "none"
              /\ Depth(nodes, f.node) >= 2
              /\ z \in SeqToSet(nodes[f.node].elements)
              /\ nodes[f.node].key \in {1, 2}

\* C12: for every node n of the tree, n.Key() has depth(n) * BitQuantum bits,
\* chunk d of which holds, least significant bit first, the child position
\* taken at depth d on the way from the root to n, and Node(n.Key()) returns
\* n itself (the root for the empty key).
C12_KeyNodeRoundTrip ==
    Ready =>
        \A n \in DOMAIN nodes :
            LET k == Key(nodes, n)
                d == Depth(nodes, n)
            IN  /\ d = Len(n)
                /\ k.bits = d * bitQuantum
                /\ \A c \in 0..(d - 1) : \A j \in 0..(bitQuantum - 1) :
                       Get(k, c * bitQuantum + j) = (n[c + 1] \div (2 ^ j)) % 2
                /\ Node(nodes, k) = [err |-> "none", node |-> n]
                /\ (n = root) = (k.bits = 0)

\* C12 witness: the round trip holds for an internal node below the root and
\* for a leaf two levels down whose position reads differently in the two
\* bit orders.
C12_Witness ==
    /\ Ready
    /\ \E n \in DOMAIN nodes :
          n # root /\ ~IsLeaf(nodes[n]) /\ Node(nodes, Key(nodes, n)).node = n
    /\ \E n \in DOMAIN nodes :
          /\ Depth(nodes, n) >= 2
          /\ IsLeaf(nodes[n])
          /\ nodes[n].key \in {1, 2}
          /\ Node(nodes, Key(nodes, n)).node = n

\* C13: in every state between calls no node has both children and elements:
\* a node is a leaf exactly when it has no children, and an internal node's
\* own elements are empty, after splits as well as after joins.
C13_LeafOrInternal ==
    Ready =>
        \A n \in DOMAIN nodes :
            /\ ~(nodes[n].children # <<>> /\ nodes[n].elements # <<>>)
            /\ IsLeaf(nodes[n]) <=> nodes[n].children = <<>>
            /\ ~IsLeaf(nodes[n]) => nodes[n].elements = <<>>

\* C13 witness: a leaf that split, was joined and split again is internal,
\* next to a leaf that holds two elements or more.
C13_Witness ==
    /\ Ready
    /\ seen = {"split", "join"}
    /\ ~IsLeaf(nodes[root])
    /\ \E n \in DOMAIN nodes : IsLeaf(nodes[n]) /\ Len(nodes[n].elements) >= 2

\* C14: in every state between calls the root has no parent, every internal
\* node has exactly 2^BitQuantum children, and the child at position i has
\* key i and that node as its parent; every other node is such a child.
C14_FanOut ==
    Ready =>
        /\ nodes[root].parent = NilNode
        /\ \A n \in DOMAIN nodes :
               ~IsLeaf(nodes[n]) =>
                   /\ bitQuantum >= 0
                   /\ Len(nodes[n].children) = 2 ^ bitQuantum
                   /\ \A i \in 1..Len(nodes[n].children) :
                          LET c == nodes[n].children[i]
                          IN  /\ c \in DOMAIN nodes
                              /\ nodes[c].key = i - 1
                              /\ nodes[c].parent = n
        /\ \A n \in DOMAIN nodes \ {root} :
               /\ nodes[n].parent \in DOMAIN nodes
               /\ \E i \in 1..Len(nodes[nodes[n].parent].children) :
                      nodes[nodes[n].parent].children[i] = n

\* C14 witness: a node that split, was joined and split again has four
\* children, one of which is internal itself.
C14_Witness ==
    /\ Ready
    /\ seen = {"split", "join"}
    /\ Len(nodes[root].children) = 4
    /\ \E i \in 1..4 : ~IsLeaf(nodes[nodes[root].children[i]])

\* m is a node strictly above n, n a node strictly below m.
Above(m, n) == Len(m) < Len(n) /\ SubSeq(n, 1, Len(m)) = m

C16_SplitTrigger ==
    [][root # NilNode =>
          /\ err' = "none" =>
                 \A n \in DOMAIN nodes' :
                     IsLeaf(nodes'[n]) => Len(nodes'[n].elements) <= splitThreshold + 1
          /\ \A z \in Universe :
                 (Fresh(z) /\ Insert(z)) =>
                     LET n == Find(nodes, z).node
                     IN  IF Len(nodes[n].elements) <= splitThreshold
                         THEN /\ err' = "none"
                              /\ DOMAIN nodes' = DOMAIN nodes
                              /\ nodes'[n].elements = Append(nodes[n].elements, z)
                         ELSE err' = "none" =>
                              /\ Len(nodes[n].elements) = splitThreshold + 1
                              /\ ~IsLeaf(nodes'[n])
                              /\ nodes'[n].elements = <<>>
                              /\ Len(nodes'[n].children) = 2 ^ bitQuantum
                              /\ nodes'[n].numElements = splitThreshold + 2
                              /\ SumSizes(nodes', nodes'[n].children, 1) = splitThreshold + 2
                              /\ SeqToSet(Elements(nodes', n))
                                     = SeqToSet(nodes[n].elements) \cup {z}]_vars

\* The child position that the navigation bits of e select at depth d.
Selects(e, d) == NodeChildIndex(Nav(e), d * bitQuantum, bitQuantum, 0)

\* C17: when an Insert(z) that split the leaf n at depth d has returned, n
\* holds the leaf's elements and z, the numElements of its child at position
\* i is the number of those whose navigation bits select child i at depth d,
\* and the children's numElements sum to n.numElements; the same holds, at
\* its own depth, of every child that split in the cascade.
C17_SplitCorrectness ==
    [][\A z \in Universe :
          (Ready /\ Fresh(z) /\ Insert(z) /\ err' = "none") =>
              LET n == Find(nodes, z).node
              IN  Len(nodes[n].elements) > splitThreshold =>
                      /\ ~IsLeaf(nodes'[n])
                      /\ SeqToSet(Elements(nodes', n)) = SeqToSet(nodes[n].elements) \cup {z}
                      /\ \A m \in DOMAIN nodes' :
                             (~IsLeaf(nodes'[m]) /\ (m = n \/ m \notin DOMAIN nodes)) =>
                                 /\ \A i \in 1..Len(nodes'[m].children) :
                                        nodes'[nodes'[m].children[i]].numElements
                                            = Cardinality({e \in SeqToSet(Elements(nodes', m)) :
                                                             Selects(e, Depth(nodes', m)) = i - 1})
                                 /\ SumSizes(nodes', nodes'[m].children, 1)
                                        = nodes'[m].numElements]_vars

\* C17 witness: a leaf below the root has split and two of its children
\* hold elements.
C17_Witness ==
    /\ Ready
    /\ seen = {"split"}
    /\ \E n \in DOMAIN nodes :
          /\ n # root
          /\ ~IsLeaf(nodes[n])
          /\ Cardinality({i \in 1..Len(nodes[n].children) :
                             nodes[nodes[n].children[i]].numElements > 0}) >= 2

\* C18: a Remove(z) of a stored z that joins the internal node n returns and
\* leaves n a leaf with no node beneath it; n.elements are the elements that
\* were anywhere below n, each once, without z; n.svalues are the old ones
\* updated for z and nothing else, and are the products over the elements
\* that remain.
C18_JoinCorrectness ==
    [][\A z \in present :
          Remove(z) =>
              /\ err' = "none"
              /\ \A n \in DOMAIN nodes :
                     (~IsLeaf(nodes[n]) /\ n \in DOMAIN nodes' /\ IsLeaf(nodes'[n])) =>
                         /\ SeqToSet(nodes'[n].elements)
                                = SeqToSet(Elements(nodes, n)) \ {z}
                         /\ Len(nodes'[n].elements) = Len(Elements(nodes, n)) - 1
                         /\ Cardinality(SeqToSet(nodes'[n].elements))
                                = Len(nodes'[n].elements)
                         /\ \A m \in DOMAIN nodes' : ~Above(n, m)
                         /\ nodes'[n].svalues
                                = updateSvalues(nodes[n].svalues, DelElementArray(z).marray)
                         /\ \A i \in 1..Len(points) :
                                nodes'[n].svalues[i] = Prod(nodes'[n].elements, points[i])]_vars

\* C18 witness: the root has an internal child, and a Remove of a stored
\* element joins the whole tree into a root leaf of three elements or more.
C18_Witness ==
    /\ Ready
    /\ ~IsLeaf(nodes[root])
    /\ \E n \in DOMAIN nodes : n # root /\ ~IsLeaf(nodes[n])
    /\ \E z \in present :
          LET r == RemoveResult(nodes, z)
          IN  /\ r.err = "none"
              /\ IsLeaf(r.h[root])
              /\ Len(r.h[root].elements) >= 3
              /\ DOMAIN r.h = {root}

\* The depth bound: bitlength(P) / BitQuantum, rounded up.
MaxDepth == (BitLen(P_SKS) + bitQuantum - 1) \div bitQuantum

\* C19: whatever distinct elements are inserted and removed, however long
\* the navigation prefix they share, no node lies deeper than
\* ceil(bitlength(P) / BitQuantum) and no descent or split reads a
\* navigation bit at an index at or beyond the bitstring's length.
C19_DepthBound ==
    (root # NilNode /\ bitQuantum >= 1) =>
        /\ err # "BitRange"
        /\ \A n \in DOMAIN nodes : Depth(nodes, n) <= MaxDepth

\* C20: while no stored element is a sample point, no Remove(z), whatever
\* z, inverts zero when it computes del_m.
C20_NoInverseOfZero ==
    [][\A z \in Universe :
          ( /\ Ready
            /\ \A e \in SeqToSet(Elements(nodes, root)) : ~IsSamplePoint(e)
            /\ Remove(z) )
              => err' # "ArithmeticError"]_vars

====
